---- MODULE Spec2Model ----
(***************************************************************************)
(* The RESP codec of simple-redis (src/src/resp/mod.rs, decode.rs) and the *)
(* connection loop that drives it.  A byte is a string naming it ("a",     *)
(* "\r", "0xFF"), a buffer (BytesMut, &[u8]) a sequence of bytes.  Every   *)
(* decoder returns a record [kind, frame, buf]: kind is "Ok" or the        *)
(* RespError variant (or "Panic" for a Rust panic), buf the buffer as the  *)
(* call leaves it.                                                         *)
(***************************************************************************)
EXTENDS Integers, Sequences, FiniteSets, TLC

CR == "\r"
LF == "\n"
\* const CRLF_LEN: usize = CRLF.len()
CRLF_LEN == 2

(***************************************************************************)
(* Slices.  Rust offsets are 0-based, TLA+ sequences 1-based.              *)
(***************************************************************************)
\* &b[n..]  (the caller has checked n <= b.len(), else the slice panics)
SliceFrom(b, n) == SubSeq(b, n + 1, Len(b))
\* &b[lo..hi]
Slice(b, lo, hi) == SubSeq(b, lo + 1, hi)
\* b.starts_with(p)
StartsWith(b, p) == Len(b) >= Len(p) /\ SubSeq(b, 1, Len(p)) = p

(***************************************************************************)
(* Decimal text.                                                           *)
(***************************************************************************)
DigitChars == <<"0", "1", "2", "3", "4", "5", "6", "7", "8", "9">>
IsDigit(c) == \E i \in 1..10 : DigitChars[i] = c
DigitVal(c) == (CHOOSE i \in 1..10 : DigitChars[i] = c) - 1
AllDigits(s) == \A i \in 1..Len(s) : IsDigit(s[i])

RECURSIVE StripZeros(_)
\* the digits without leading zeros ("0" for zero)
StripZeros(s) ==
  IF Len(s) > 1 /\ s[1] = "0" THEN StripZeros(Tail(s)) ELSE s

RECURSIVE NumVal(_)
\* the number a short digit string denotes
NumVal(s) ==
  IF s = <<>> THEN 0 ELSE NumVal(SubSeq(s, 1, Len(s) - 1)) * 10 + DigitVal(s[Len(s)])

\* a <= b for digit strings of the same length
DigitsLE(a, b) ==
  \/ a = b
  \/ \E i \in 1..Len(a) :
       /\ \A j \in 1..(i - 1) : a[j] = b[j]
       /\ DigitVal(a[i]) < DigitVal(b[i])

(***************************************************************************)
(* usize.  TLC's integers are 32 bits wide, usize is 64: the usize line is *)
(* kept exact at both ends and collapsed in the middle.  n < UsizeExact is *)
(* itself; usize::MAX - d, d < UsizeTopSpan, is UsizeMax - d; every value  *)
(* between is UsizeMid.  Sums in the code add a buffer offset (far below   *)
(* UsizeTopSpan) to a parsed length, so order and overflow are exact.      *)
(***************************************************************************)
UsizeExact == 1000000
UsizeTopSpan == 100
UsizeMid == UsizeExact
UsizeMax == UsizeExact + UsizeTopSpan
\* the decimal text of usize::MAX = 18446744073709551615
UsizeMaxDigits ==
  <<"1", "8", "4", "4", "6", "7", "4", "4", "0", "7",
    "3", "7", "0", "9", "5", "5", "1", "6", "1", "5">>

\* the decimal text of usize::MAX - 24: as the length of a bulk string whose
\* header line is 21 bytes long, end + CRLF_LEN + len + CRLF_LEN is 2^64
UsizeWrapDigits ==
  <<"1", "8", "4", "4", "6", "7", "4", "4", "0", "7",
    "3", "7", "0", "9", "5", "5", "1", "5", "9", "1">>

\* a + b in usize: [ovf |-> the sum exceeds usize::MAX, v |-> the wrapped sum]
AddUsize(a, b) ==
  IF a = UsizeMid \/ b = UsizeMid THEN [ovf |-> FALSE, v |-> UsizeMid]
  ELSE IF a + b > UsizeMax THEN [ovf |-> TRUE, v |-> a + b - UsizeMax - 1]
  ELSE [ovf |-> FALSE, v |-> a + b]

\* <usize as FromStr>::from_str: an optional '+', then one or more digits
ParseUsize(s) ==
  LET body == IF Len(s) > 0 /\ s[1] = "+" THEN Tail(s) ELSE s
      ds == StripZeros(body)
  IN  IF body = <<>> \/ ~AllDigits(body) THEN [ok |-> FALSE, v |-> 0]
      ELSE IF Len(ds) <= 6 THEN [ok |-> TRUE, v |-> NumVal(ds)]
      ELSE IF Len(ds) < 20 THEN [ok |-> TRUE, v |-> UsizeMid]
      ELSE IF Len(ds) > 20 \/ ~DigitsLE(ds, UsizeMaxDigits) THEN [ok |-> FALSE, v |-> 0]
      ELSE IF SubSeq(ds, 1, 17) = SubSeq(UsizeMaxDigits, 1, 17)
              /\ NumVal(SubSeq(ds, 18, 20)) > 615 - UsizeTopSpan
           THEN [ok |-> TRUE, v |-> UsizeMax - (615 - NumVal(SubSeq(ds, 18, 20)))]
      ELSE [ok |-> TRUE, v |-> UsizeMid]

(***************************************************************************)
(* i64.  An Integer frame's value is kept as its canonical decimal text:   *)
(* [neg, mag], mag without leading zeros, zero never negative.             *)
(***************************************************************************)
\* the decimal text of i64::MAX = 9223372036854775807
I64MaxDigits ==
  <<"9", "2", "2", "3", "3", "7", "2", "0", "3", "6",
    "8", "5", "4", "7", "7", "5", "8", "0", "7">>
\* the decimal text of -i64::MIN = 9223372036854775808
I64MinDigits ==
  <<"9", "2", "2", "3", "3", "7", "2", "0", "3", "6",
    "8", "5", "4", "7", "7", "5", "8", "0", "8">>

\* the parse without its range check: a text beyond i64 is given a value
ParseI64Unchecked(s) ==
  LET signed == Len(s) > 0 /\ s[1] \in {"+", "-"}
      neg == Len(s) > 0 /\ s[1] = "-"
      body == IF signed THEN Tail(s) ELSE s
      ds == StripZeros(body)
  IN  IF body = <<>> \/ ~AllDigits(body) THEN [ok |-> FALSE, v |-> <<>>]
      ELSE IF Len(ds) >= 19 THEN [ok |-> TRUE, v |-> [neg |-> neg, mag |-> I64MaxDigits]]
      ELSE [ok |-> TRUE, v |-> [neg |-> neg /\ ds # <<"0">>, mag |-> ds]]

\* <i64 as FromStr>::from_str: an optional '+' or '-', then one or more digits
ParseI64(s) ==
  LET signed == Len(s) > 0 /\ s[1] \in {"+", "-"}
      neg == Len(s) > 0 /\ s[1] = "-"
      body == IF signed THEN Tail(s) ELSE s
      ds == StripZeros(body)
      fits == \/ Len(ds) < 19
              \/ Len(ds) = 19 /\ DigitsLE(ds, IF neg THEN I64MinDigits ELSE I64MaxDigits)
  IN  IF body = <<>> \/ ~AllDigits(body) \/ ~fits THEN [ok |-> FALSE, v |-> <<>>]
      ELSE [ok |-> TRUE, v |-> [neg |-> neg /\ ds # <<"0">>, mag |-> ds]]

(***************************************************************************)
(* f64.  A Double frame's value is kept as an exact decimal [neg, mag,     *)
(* exp] = (-1)^neg * mag * 10^exp, mag without leading or trailing zeros;  *)
(* zero is [FALSE, <<"0">>, 0] (0.0 == -0.0), the specials have mag        *)
(* <<"inf">> and <<"nan">>.  Two short decimal texts denote the same f64   *)
(* exactly when they denote the same decimal.                              *)
(***************************************************************************)
LowerChar(c) ==
  CASE c = "I" -> "i" [] c = "N" -> "n" [] c = "F" -> "f" [] c = "T" -> "t"
    [] c = "Y" -> "y" [] c = "A" -> "a" [] OTHER -> c
Lower(s) == [i \in 1..Len(s) |-> LowerChar(s[i])]

RECURSIVE StripTrailingZeros(_)
StripTrailingZeros(s) ==
  IF Len(s) > 1 /\ s[Len(s)] = "0" THEN StripTrailingZeros(SubSeq(s, 1, Len(s) - 1)) ELSE s

\* the position of the first byte of s in set cs, 0 when there is none
FirstOf(s, cs) ==
  IF \E i \in 1..Len(s) : s[i] \in cs
  THEN CHOOSE i \in 1..Len(s) : s[i] \in cs /\ \A j \in 1..(i - 1) : s[j] \notin cs
  ELSE 0

\* <f64 as FromStr>::from_str:
\* [sign] (inf | infinity | nan | digits [. digits] [(e|E) [sign] digits])
ParseF64(s) ==
  LET signed == Len(s) > 0 /\ s[1] \in {"+", "-"}
      neg == Len(s) > 0 /\ s[1] = "-"
      body == IF signed THEN Tail(s) ELSE s
      epos == FirstOf(body, {"e", "E"})
      mtxt == IF epos = 0 THEN body ELSE SubSeq(body, 1, epos - 1)
      etxt == IF epos = 0 THEN <<>> ELSE SubSeq(body, epos + 1, Len(body))
      esigned == Len(etxt) > 0 /\ etxt[1] \in {"+", "-"}
      eneg == Len(etxt) > 0 /\ etxt[1] = "-"
      edig == IF esigned THEN Tail(etxt) ELSE etxt
      dot == FirstOf(mtxt, {"."})
      ipart == IF dot = 0 THEN mtxt ELSE SubSeq(mtxt, 1, dot - 1)
      fpart == IF dot = 0 THEN <<>> ELSE SubSeq(mtxt, dot + 1, Len(mtxt))
      okm == AllDigits(ipart) /\ AllDigits(fpart) /\ Len(ipart) + Len(fpart) > 0
      oke == epos = 0 \/ (edig # <<>> /\ AllDigits(edig))
      all == StripZeros(ipart \o fpart)
      mag == StripTrailingZeros(all)
      ebig == Len(StripZeros(edig)) > 3
      e10 == IF epos = 0 \/ ebig THEN 0
             ELSE IF eneg THEN 0 - NumVal(StripZeros(edig)) ELSE NumVal(StripZeros(edig))
      special == Lower(body)
  IN  IF special \in {<<"i", "n", "f">>, <<"i", "n", "f", "i", "n", "i", "t", "y">>}
        THEN [ok |-> TRUE, v |-> [neg |-> neg, mag |-> <<"inf">>, exp |-> 0]]
      ELSE IF special = <<"n", "a", "n">>
        THEN [ok |-> TRUE, v |-> [neg |-> FALSE, mag |-> <<"nan">>, exp |-> 0]]
      ELSE IF ~(okm /\ oke) THEN [ok |-> FALSE, v |-> <<>>]
      ELSE IF mag = <<"0">> \/ (ebig /\ eneg)
        THEN [ok |-> TRUE, v |-> [neg |-> FALSE, mag |-> <<"0">>, exp |-> 0]]
      ELSE IF ebig
        THEN [ok |-> TRUE, v |-> [neg |-> neg, mag |-> <<"inf">>, exp |-> 0]]
      ELSE [ok |-> TRUE,
            v |-> [neg |-> neg, mag |-> mag,
                   exp |-> e10 - Len(fpart) + (Len(all) - Len(mag))]]

\* String::from_utf8_lossy: a byte that is no valid UTF-8 becomes U+FFFD
Utf8Lossy(s) == [i \in 1..Len(s) |-> IF s[i] = "0xFF" THEN "U+FFFD" ELSE s[i]]

(***************************************************************************)
(* enum RespFrame.  One record shape for all variants, so that any two     *)
(* frames compare: bytes (SimpleString, Error, BulkString), num (Integer,  *)
(* Double), flag (Boolean), items (Array, Set), entries (Map: the set of   *)
(* <<key, value>> pairs of the HashMap).                                   *)
(***************************************************************************)
NoNum == [neg |-> FALSE, mag |-> <<>>, exp |-> 0]
Frame0(t) ==
  [type |-> t, bytes |-> <<>>, num |-> NoNum, flag |-> FALSE, items |-> <<>>, entries |-> {}]
NoFrame == Frame0("None")
SimpleString(s) == [Frame0("SimpleString") EXCEPT !.bytes = s]
SimpleError(s) == [Frame0("Error") EXCEPT !.bytes = s]
Integer(v) == [Frame0("Integer") EXCEPT !.num = [neg |-> v.neg, mag |-> v.mag, exp |-> 0]]
BulkString(s) == [Frame0("BulkString") EXCEPT !.bytes = s]
RespNullBulkString == Frame0("NullBulkString")
RespArray(fs) == [Frame0("Array") EXCEPT !.items = fs]
RespNull == Frame0("Null")
RespNullArray == Frame0("NullArray")
Boolean(b) == [Frame0("Boolean") EXCEPT !.flag = b]
Double(v) == [Frame0("Double") EXCEPT !.num = v]
RespMap(es) == [Frame0("Map") EXCEPT !.entries = es]
RespSet(fs) == [Frame0("Set") EXCEPT !.items = fs]

\* HashMap::insert: the entry of an equal key is replaced
MapInsert(es, k, v) == {e \in es : e[1] # k} \cup {<<k, v>>}

(***************************************************************************)
(* Results.  A step that needs an earlier result takes it as a parameter   *)
(* (the "...Of" operators), so that each call of the code is written once. *)
(***************************************************************************)
Ok(f, b) == [kind |-> "Ok", frame |-> f, buf |-> b]
Err(k, b) == [kind |-> k, frame |-> NoFrame, buf |-> b]
OkLen(n) == [kind |-> "Ok", n |-> n]
ErrLen(k) == [kind |-> k, n |-> 0]

(***************************************************************************)
(* mod.rs: the header-line helpers.                                        *)
(***************************************************************************)
CrlfAt(b, i) == b[i + 1] = CR /\ b[i + 2] = LF

\* the loop of extract_simaple_frame_data: the offset of the first CRLF, 0 if none
FirstCrlf(b) ==
  IF \E i \in 0..(Len(b) - 2) : CrlfAt(b, i)
  THEN CHOOSE i \in 0..(Len(b) - 2) : CrlfAt(b, i) /\ \A j \in 0..(i - 1) : ~CrlfAt(b, j)
  ELSE 0

\* if end == 0 { return Err(NotComplete) }; Ok(end)
EndOf(end) == IF end = 0 THEN ErrLen("NotComplete") ELSE OkLen(end)

\* extract_simaple_frame_data(buf, prefix) -> Result<usize, RespError>
extract_simaple_frame_data(b, prefix) ==
  IF Len(b) < 3 THEN ErrLen("NotComplete")
  ELSE IF ~StartsWith(b, prefix) THEN ErrLen("InvalidFrameType")
  ELSE EndOf(FirstCrlf(b))

\* extract_fixed_data(buf, expect, expect_type) -> Result<(), RespError>
extract_fixed_data(b, expect) ==
  IF Len(b) < 3 THEN Err("NotComplete", b)
  ELSE IF ~StartsWith(b, expect) THEN Err("InvalidFrameType", b)
  ELSE Ok(NoFrame, SliceFrom(b, Len(expect)))

\* Ok((end, s.parse()?))
LengthOf(end, p) ==
  IF p.ok THEN [kind |-> "Ok", end |-> end, len |-> p.v]
  ELSE [kind |-> "ParseIntError", end |-> 0, len |-> 0]

ParseLengthOf(b, prefix, r) ==
  IF r.kind # "Ok" THEN [kind |-> r.kind, end |-> 0, len |-> 0]
  ELSE LengthOf(r.n, ParseUsize(Utf8Lossy(Slice(b, Len(prefix), r.n))))

\* parse_length(buf, prefix) -> Result<(usize, usize), RespError>
parse_length(b, prefix) == ParseLengthOf(b, prefix, extract_simaple_frame_data(b, prefix))

(***************************************************************************)
(* expect_length: the measuring half.  oc is the build's overflow-checks   *)
(* setting: with it an overflowing usize sum panics, without it the sum    *)
(* wraps.                                                                  *)
(***************************************************************************)
LineLengthOf(r) == IF r.kind # "Ok" THEN r ELSE OkLen(r.n + CRLF_LEN)

\* SimpleString, SimpleError, i64, f64 ::expect_length: end + CRLF_LEN
SimpleExpectLength(b, prefix) == LineLengthOf(extract_simaple_frame_data(b, prefix))

SumOf(s1, s2, oc) ==
  IF oc /\ (s1.ovf \/ s2.ovf) THEN ErrLen("Panic") ELSE OkLen(s2.v)

Sum2Of(s1, oc) == SumOf(s1, AddUsize(s1.v, CRLF_LEN), oc)

BulkLengthOf(pl, oc) ==
  IF pl.kind # "Ok" THEN ErrLen(pl.kind)
  ELSE Sum2Of(AddUsize(pl.end + CRLF_LEN, pl.len), oc)

\* BulkString::expect_length: end + CRLF_LEN + len + CRLF_LEN
BulkString_expect_length(b, oc) == BulkLengthOf(parse_length(b, <<"$">>), oc)

RECURSIVE RespFrame_expect_length(_, _)
RECURSIVE MeasureLoop(_, _, _, _)

\* let len = RespFrame::expect_length(data)?; data = &data[len..]; total += len;
\* A frame measured as 0 bytes (a wrapped sum) leaves data where it is.
MeasuredOf(r, data, n, total, oc) ==
  IF r.kind # "Ok" THEN r
  ELSE IF r.n > Len(data) THEN ErrLen("Panic")
  ELSE IF r.n = 0 /\ n >= UsizeExact THEN ErrLen("Hang")
  ELSE MeasureLoop(SliceFrom(data, r.n), IF n >= UsizeExact THEN n ELSE n - 1,
                   total + r.n, oc)

\* the loops of calc_total_length: n more frames to measure in data
MeasureLoop(data, n, total, oc) ==
  IF n = 0 THEN OkLen(total)
  ELSE MeasuredOf(RespFrame_expect_length(data, oc), data, n, total, oc)

\* calc_total_length(buf, end, len, prefix) -> Result<usize, RespError>
calc_total_length(b, end, len, prefix, oc) ==
  IF prefix \in {<<"*">>, <<"~">>, <<"%">>}
  THEN MeasureLoop(SliceFrom(b, end + CRLF_LEN),
                   IF prefix = <<"%">> /\ len < UsizeExact THEN 2 * len ELSE len,
                   end + CRLF_LEN, oc)
  ELSE OkLen(len + CRLF_LEN)

ContainerLengthOf(b, pl, prefix, oc) ==
  IF pl.kind # "Ok" THEN ErrLen(pl.kind)
  ELSE calc_total_length(b, pl.end, pl.len, prefix, oc)

\* RespArray, RespSet, RespMap ::expect_length
ContainerExpectLength(b, prefix, oc) ==
  ContainerLengthOf(b, parse_length(b, prefix), prefix, oc)

\* RespFrame::expect_length(buf) -> Result<usize, RespError>
RespFrame_expect_length(b, oc) ==
  IF b = <<>> THEN ErrLen("NotComplete")
  ELSE IF b[1] \in {"*", "~", "%"} THEN ContainerExpectLength(b, <<b[1]>>, oc)
  ELSE IF b[1] = "$" THEN BulkString_expect_length(b, oc)
  ELSE IF b[1] \in {":", "+", "-", ","} THEN SimpleExpectLength(b, <<b[1]>>)
  ELSE IF b[1] = "#" THEN OkLen(4)
  ELSE IF b[1] = "_" THEN OkLen(3)
  ELSE ErrLen("NotComplete")

(***************************************************************************)
(* decode: the consuming half.                                             *)
(***************************************************************************)
SimpleStringOf(b, r) ==
  IF r.kind # "Ok" THEN Err(r.kind, b)
  ELSE Ok(SimpleString(Utf8Lossy(Slice(b, 1, r.n))), SliceFrom(b, r.n + 2))

\* SimpleString::decode
SimpleString_decode(b) == SimpleStringOf(b, extract_simaple_frame_data(b, <<"+">>))

SimpleErrorOf(b, r) ==
  IF r.kind # "Ok" THEN Err(r.kind, b)
  ELSE Ok(SimpleError(Utf8Lossy(Slice(b, 1, r.n))), SliceFrom(b, r.n + 2))

\* SimpleError::decode
SimpleError_decode(b) == SimpleErrorOf(b, extract_simaple_frame_data(b, <<"-">>))

\* extract_fixed_data(..)?; Ok(frame)
FixedOf(r, frame) == IF r.kind # "Ok" THEN r ELSE Ok(frame, r.buf)

\* RespNull::decode
RespNull_decode(b) == FixedOf(extract_fixed_data(b, <<"_", CR, LF>>), RespNull)

\* RespNullArray::decode
RespNullArray_decode(b) ==
  FixedOf(extract_fixed_data(b, <<"*", "-", "1", CR, LF>>), RespNullArray)

\* RespNullBulkString::decode
RespNullBulkString_decode(b) ==
  FixedOf(extract_fixed_data(b, <<"$", "-", "1", CR, LF>>), RespNullBulkString)

\* Ok(s.parse()?), the line already split off the buffer
IntegerOf(p, rest) == IF p.ok THEN Ok(Integer(p.v), rest) ELSE Err("ParseIntError", rest)

I64Of(b, r) ==
  IF r.kind # "Ok" THEN Err(r.kind, b)
  ELSE IntegerOf(ParseI64(Utf8Lossy(Slice(b, 1, r.n))), SliceFrom(b, r.n + 2))

\* i64::decode
i64_decode(b) == I64Of(b, extract_simaple_frame_data(b, <<":">>))

BoolOf(t, f) ==
  IF t.kind = "Ok" THEN Ok(Boolean(TRUE), t.buf)
  ELSE IF f.kind = "Ok" THEN Ok(Boolean(FALSE), f.buf)
  ELSE f

\* bool::decode: "#t\r\n", and on any error of that "#f\r\n"
bool_decode(b) ==
  BoolOf(extract_fixed_data(b, <<"#", "t", CR, LF>>),
         extract_fixed_data(b, <<"#", "f", CR, LF>>))

\* buf.advance(end + CRLF_LEN); data = buf.split_to(len + CRLF_LEN); &data[..len]
BulkPayloadOf(remained, len, need, oc) ==
  IF oc /\ need.ovf THEN Err("Panic", remained)
  ELSE IF len > need.v THEN Err("Panic", SliceFrom(remained, need.v))
  ELSE Ok(BulkString(Slice(remained, 0, len)), SliceFrom(remained, need.v))

\* the length check placed after buf.advance(end + CRLF_LEN): the header is gone
BulkCheckAdvanced(b, remained, len, need, oc) ==
  IF oc /\ need.ovf THEN Err("Panic", b)
  ELSE IF Len(remained) < need.v THEN Err("NotComplete", remained)
  ELSE BulkPayloadOf(remained, len, need, oc)

\* if remained.len() < len + CRLF_LEN { return Err(NotComplete) }
BulkCheckOf(b, remained, len, need, oc) ==
  IF oc /\ need.ovf THEN Err("Panic", b)
  ELSE IF Len(remained) < need.v THEN Err("NotComplete", b)
  ELSE BulkPayloadOf(remained, len, need, oc)

BulkStringOf(b, pl, oc) ==
  IF pl.kind # "Ok" THEN Err(pl.kind, b)
  ELSE BulkCheckOf(b, SliceFrom(b, pl.end + CRLF_LEN), pl.len, AddUsize(pl.len, CRLF_LEN), oc)

\* BulkString::decode
BulkString_decode(b, oc) == BulkStringOf(b, parse_length(b, <<"$">>), oc)

\* Ok(s.parse()?), the line already split off the buffer
DoubleOf(p, rest) == IF p.ok THEN Ok(Double(p.v), rest) ELSE Err("ParseFloatError", rest)

F64Of(b, r) ==
  IF r.kind # "Ok" THEN Err(r.kind, b)
  ELSE DoubleOf(ParseF64(Utf8Lossy(Slice(b, 1, r.n))), SliceFrom(b, r.n + CRLF_LEN))

\* f64::decode
f64_decode(b) == F64Of(b, extract_simaple_frame_data(b, <<",">>))

RECURSIVE RespFrame_decode(_, _)
RECURSIVE DecodeItems(_, _, _, _)
RECURSIVE DecodeEntries(_, _, _, _)

\* frames.push(RespFrame::decode(buf)?)
ItemOf(r, n, frames, oc) ==
  IF r.kind # "Ok" THEN [kind |-> r.kind, items |-> frames, buf |-> r.buf]
  ELSE DecodeItems(r.buf, n - 1, Append(frames, r.frame), oc)

\* for _ in 0..len { frames.push(RespFrame::decode(buf)?) }
DecodeItems(b, n, frames, oc) ==
  IF n = 0 THEN [kind |-> "Ok", items |-> frames, buf |-> b]
  ELSE ItemOf(RespFrame_decode(b, oc), n, frames, oc)

\* value = RespFrame::decode(buf)?; map.insert(key.0, value)
ValueOf(k, v, n, map, oc) ==
  IF v.kind # "Ok" THEN [kind |-> v.kind, entries |-> map, buf |-> v.buf]
  ELSE DecodeEntries(v.buf, n - 1, MapInsert(map, k.frame.bytes, v.frame), oc)

\* key = SimpleString::decode(buf)?
KeyOf(k, n, map, oc) ==
  IF k.kind # "Ok" THEN [kind |-> k.kind, entries |-> map, buf |-> k.buf]
  ELSE ValueOf(k, RespFrame_decode(k.buf, oc), n, map, oc)

\* for _ in 0..len { key = ..; value = ..; map.insert(key.0, value) }
DecodeEntries(b, n, map, oc) ==
  IF n = 0 THEN [kind |-> "Ok", entries |-> map, buf |-> b]
  ELSE KeyOf(SimpleString_decode(b), n, map, oc)

\* if buf.len() < total_len { return Err(NotComplete) }; buf.advance(end + CRLF_LEN)
HeaderCheckOf(b, pl, t) ==
  IF t.kind # "Ok" THEN [kind |-> t.kind, len |-> 0, buf |-> b]
  ELSE IF Len(b) < t.n THEN [kind |-> "NotComplete", len |-> 0, buf |-> b]
  ELSE [kind |-> "Ok", len |-> pl.len, buf |-> SliceFrom(b, pl.end + CRLF_LEN)]

HeaderOf(b, pl, prefix, oc) ==
  IF pl.kind # "Ok" THEN [kind |-> pl.kind, len |-> 0, buf |-> b]
  ELSE HeaderCheckOf(b, pl, calc_total_length(b, pl.end, pl.len, prefix, oc))

\* what RespArray, RespSet and RespMap ::decode do before their loops:
\* parse_length, calc_total_length, the length check, the advance past the header
ContainerHeader(b, prefix, oc) == HeaderOf(b, parse_length(b, prefix), prefix, oc)

ArrayOf(r) == IF r.kind # "Ok" THEN Err(r.kind, r.buf) ELSE Ok(RespArray(r.items), r.buf)

ArrayItemsOf(h, oc) ==
  IF h.kind # "Ok" THEN Err(h.kind, h.buf) ELSE ArrayOf(DecodeItems(h.buf, h.len, <<>>, oc))

\* RespArray::decode
RespArray_decode(b, oc) == ArrayItemsOf(ContainerHeader(b, <<"*">>, oc), oc)

SetOf(r) == IF r.kind # "Ok" THEN Err(r.kind, r.buf) ELSE Ok(RespSet(r.items), r.buf)

SetItemsOf(h, oc) ==
  IF h.kind # "Ok" THEN Err(h.kind, h.buf) ELSE SetOf(DecodeItems(h.buf, h.len, <<>>, oc))

\* RespSet::decode
RespSet_decode(b, oc) == SetItemsOf(ContainerHeader(b, <<"~">>, oc), oc)

MapOf(r) == IF r.kind # "Ok" THEN Err(r.kind, r.buf) ELSE Ok(RespMap(r.entries), r.buf)

MapEntriesOf(h, oc) ==
  IF h.kind # "Ok" THEN Err(h.kind, h.buf) ELSE MapOf(DecodeEntries(h.buf, h.len, {}, oc))

\* RespMap::decode
RespMap_decode(b, oc) == MapEntriesOf(ContainerHeader(b, <<"%">>, oc), oc)

\* the '$' arm without its Err(_) => BulkString::decode fallback
DollarStrict(b, nul, oc) ==
  IF nul.kind = "Ok" THEN nul ELSE Err(nul.kind, b)

\* match RespNullBulkString::decode(buf) { Ok, Err(NotComplete), Err(_) => BulkString::decode }
DollarOf(b, nul, oc) ==
  IF nul.kind = "Ok" THEN nul
  ELSE IF nul.kind = "NotComplete" THEN Err("NotComplete", b)
  ELSE BulkString_decode(b, oc)

\* match RespNullArray::decode(buf) { Ok, Err(NotComplete), Err(_) => RespArray::decode }
StarOf(b, nul, oc) ==
  IF nul.kind = "Ok" THEN nul
  ELSE IF nul.kind = "NotComplete" THEN Err("NotComplete", b)
  ELSE RespArray_decode(b, oc)

\* the dispatch with expect_length's last arm, _ => Err(NotComplete)
DecodeLenient(b, oc) ==
  IF b = <<>> THEN Err("NotComplete", b)
  ELSE CASE b[1] = "+" -> SimpleString_decode(b)
         [] b[1] = "-" -> SimpleError_decode(b)
         [] b[1] = ":" -> i64_decode(b)
         [] b[1] = "$" -> DollarOf(b, RespNullBulkString_decode(b), oc)
         [] b[1] = "*" -> StarOf(b, RespNullArray_decode(b), oc)
         [] b[1] = "_" -> RespNull_decode(b)
         [] b[1] = "#" -> bool_decode(b)
         [] b[1] = "," -> f64_decode(b)
         [] b[1] = "%" -> RespMap_decode(b, oc)
         [] b[1] = "~" -> RespSet_decode(b, oc)
         [] OTHER -> Err("NotComplete", b)

\* RespFrame::decode(buf) -> Result<RespFrame, RespError>
RespFrame_decode(b, oc) ==
  IF b = <<>> THEN Err("NotComplete", b)
  ELSE CASE b[1] = "+" -> SimpleString_decode(b)
         [] b[1] = "-" -> SimpleError_decode(b)
         [] b[1] = ":" -> i64_decode(b)
         [] b[1] = "$" -> DollarOf(b, RespNullBulkString_decode(b), oc)
         [] b[1] = "*" -> StarOf(b, RespNullArray_decode(b), oc)
         [] b[1] = "_" -> RespNull_decode(b)
         [] b[1] = "#" -> bool_decode(b)
         [] b[1] = "," -> f64_decode(b)
         [] b[1] = "%" -> RespMap_decode(b, oc)
         [] b[1] = "~" -> RespSet_decode(b, oc)
         [] OTHER -> Err("InvalidFrameType", b)

(***************************************************************************)
(* The encoder (RespEncode, encode.rs) and the wire forms a peer can send. *)
(* A wire term is a frame, except that a Map term lists its entries in     *)
(* items, as Entry(key, value) in the order they are written (the          *)
(* HashMap's iteration order for an encoded frame; any list, repeated keys *)
(* included, for a peer's own bytes).                                      *)
(***************************************************************************)
RECURSIVE DecText(_)
\* the decimal text of a natural number
DecText(n) == IF n < 10 THEN <<DigitChars[n + 1]>> ELSE DecText(n \div 10) \o <<DigitChars[(n % 10) + 1]>>

RECURSIVE Zeros(_)
Zeros(n) == IF n <= 0 THEN <<>> ELSE <<"0">> \o Zeros(n - 1)

\* the text of a Double with its sign: +1.5, -20, +0.05, +inf, NaN
DoubleText(v) ==
  LET sign == IF v.neg THEN <<"-">> ELSE <<"+">>
      n == Len(v.mag)
  IN  IF v.mag = <<"nan">> THEN <<"N", "a", "N">>
      ELSE IF v.mag = <<"inf">> THEN sign \o <<"i", "n", "f">>
      ELSE IF v.exp >= 0 THEN sign \o v.mag \o Zeros(v.exp)
      ELSE IF n > 0 - v.exp
        THEN sign \o SubSeq(v.mag, 1, n + v.exp) \o <<".">> \o SubSeq(v.mag, n + v.exp + 1, n)
      ELSE sign \o <<"0", ".">> \o Zeros(0 - v.exp - n) \o v.mag

\* one entry of a Map term: the key's text and the value's term
Entry(k, w) == [Frame0("Entry") EXCEPT !.bytes = k, !.items = <<w>>]
MapTerm(es) == [Frame0("Map") EXCEPT !.items = es]

RECURSIVE encode(_)
RECURSIVE EncodeItems(_)
RECURSIVE EncodeEntries(_)

EncodeItems(fs) == IF fs = <<>> THEN <<>> ELSE encode(Head(fs)) \o EncodeItems(Tail(fs))

EncodeEntries(es) ==
  IF es = <<>> THEN <<>>
  ELSE <<"+">> \o Head(es).bytes \o <<CR, LF>> \o encode(Head(es).items[1])
         \o EncodeEntries(Tail(es))

\* RespEncode::encode, per the prefix table
encode(w) ==
  CASE w.type = "SimpleString" -> <<"+">> \o w.bytes \o <<CR, LF>>
    [] w.type = "Error" -> <<"-">> \o w.bytes \o <<CR, LF>>
    [] w.type = "Integer" ->
         <<":">> \o (IF w.num.neg THEN <<"-">> ELSE <<"+">>) \o w.num.mag \o <<CR, LF>>
    [] w.type = "BulkString" ->
         <<"$">> \o DecText(Len(w.bytes)) \o <<CR, LF>> \o w.bytes \o <<CR, LF>>
    [] w.type = "NullBulkString" -> <<"$", "-", "1", CR, LF>>
    [] w.type = "Array" -> <<"*">> \o DecText(Len(w.items)) \o <<CR, LF>> \o EncodeItems(w.items)
    [] w.type = "Null" -> <<"_", CR, LF>>
    [] w.type = "NullArray" -> <<"*", "-", "1", CR, LF>>
    [] w.type = "Boolean" -> <<"#", IF w.flag THEN "t" ELSE "f", CR, LF>>
    [] w.type = "Double" -> <<",">> \o DoubleText(w.num) \o <<CR, LF>>
    [] w.type = "Map" -> <<"%">> \o DecText(Len(w.items)) \o <<CR, LF>> \o EncodeEntries(w.items)
    [] w.type = "Set" -> <<"~">> \o DecText(Len(w.items)) \o <<CR, LF>> \o EncodeItems(w.items)

RECURSIVE FrameOf(_)
RECURSIVE FramesOf(_)
RECURSIVE EntriesOf(_, _)

FramesOf(ws) == IF ws = <<>> THEN <<>> ELSE <<FrameOf(Head(ws))>> \o FramesOf(Tail(ws))

\* the entries written in order into a map: a later key replaces an equal earlier one
EntriesOf(es, map) ==
  IF es = <<>> THEN map
  ELSE EntriesOf(Tail(es),
                 MapInsert(map, Utf8Lossy(Head(es).bytes), FrameOf(Head(es).items[1])))

\* the frame a wire term stands for
FrameOf(w) ==
  CASE w.type = "Map" -> RespMap(EntriesOf(w.items, {}))
    [] w.type \in {"Array", "Set"} -> [w EXCEPT !.items = FramesOf(w.items)]
    [] OTHER -> w

(***************************************************************************)
(* The connection: a handler owns buf, appends what it reads from the      *)
(* socket, and calls RespFrame::decode until it reports NotComplete; any   *)
(* other error ends the connection, a panic ends the handler's task.       *)
(* The handler is the first task main has spawned.                         *)
(***************************************************************************)
VARIABLES
  buf,      \* the handler's BytesMut
  wire,     \* bytes the peer has sent that the handler has not read yet
  sent,     \* the wire terms the peer encoded (none for a peer sending raw bytes)
  pc,       \* the handler: "read", "decode", "closed" (error), "crashed" (panic)
  pre,      \* buf as it was when decode was last called
  res,      \* what that call returned
  frames,   \* the frames decoded so far, in order
  nread,    \* socket reads so far
  main,     \* main's task: "start", "accepting", "failed" (it returned an Err)
  tasks     \* the handler tasks spawned so far, in the order of their accept

vars == <<buf, wire, sent, pc, pre, res, frames, nread, main, tasks>>

\* a handler task as tokio::spawn starts it: it owns a clone of main's Backend
\* handle; log is what the task has written on ending
Spawned(n) ==
  [state |-> "running", backend |-> [store |-> "backend", clone |-> n], log |-> "none"]

\* socket reads per connection
MaxReads == 3
\* items of a container, entries of a map, in the frames a peer encodes
MaxItems == 2
\* frames a peer sends back to back
MaxSent == 2

NoRes == [kind |-> "None", frame |-> NoFrame, buf |-> <<>>]

Line(s) == s \o <<CR, LF>>

\* what one socket read can bring from a peer that sends raw bytes:
\* whole lines, well-formed or not, and fragments of lines
Chunks ==
  { Line(<<"+", "a">>), Line(<<":", "1">>), Line(<<":", "a">>), Line(<<",", "x">>),
    Line(<<"$", "1">>), Line(<<"$", "2">>), Line(<<"$", "-", "1">>),
    Line(<<"$">> \o UsizeMaxDigits),
    Line(<<"$">> \o UsizeWrapDigits),
    Line(<<"*", "1">>), Line(<<"*", "-", "1">>), Line(<<"%", "1">>), Line(<<"~", "1">>),
    Line(<<"~", "-", "1">>),
    Line(<<"_">>), Line(<<"#", "t">>), Line(<<"a">>), Line(<<"x", "a">>), Line(<<>>),
    Line(<<"$", "-", "1">>) \o Line(<<"*", "-", "1">>) \o <<"x">>,
    <<"$">>, <<"$", "-", "1">>, <<"*", "-">>, <<"#", "t">>, <<CR>>, <<LF>>, <<"a">>, <<"x">> }

One == [neg |-> FALSE, mag |-> <<"1">>]

\* the frames without items
Scalars ==
  { SimpleString(<<"a">>), SimpleError(<<"a">>), Integer(One),
    Integer([neg |-> TRUE, mag |-> <<"1">>]), BulkString(<<"a">>), BulkString(<<CR, LF>>),
    RespNullBulkString, RespNull, RespNullArray, Boolean(TRUE), Boolean(FALSE),
    Double([neg |-> FALSE, mag |-> <<"1", "5">>, exp |-> -1]) }

\* what a container of the peer holds
Elems ==
  { BulkString(<<"a">>), Integer(One), Boolean(TRUE), RespNull, RespNullBulkString,
    RespNullArray }
\* the keys and the values of a map of the peer
Keys == {<<"a">>, <<"b">>}
Values == {BulkString(<<"a">>), Integer(One), RespNullBulkString}

SeqsUpTo(S, n) == UNION {[1..k -> S] : k \in 0..n}

Containers ==
  {RespArray(s) : s \in SeqsUpTo(Elems, MaxItems)}
    \cup {RespSet(s) : s \in SeqsUpTo(Elems, MaxItems)}
    \cup {MapTerm(s) : s \in SeqsUpTo({Entry(k, v) : k \in Keys, v \in Values}, MaxItems)}

Nested ==
  { RespArray(<<RespArray(<<BulkString(<<"a">>)>>)>>),
    RespArray(<<RespSet(<<Integer(One)>>), Boolean(TRUE)>>),
    RespSet(<<MapTerm(<<Entry(<<"a">>, RespNull)>>)>>),
    MapTerm(<<Entry(<<"a">>, RespArray(<<Integer(One)>>))>>) }

\* what a peer sends back to back
Pairable ==
  { SimpleString(<<"a">>), Integer(One), BulkString(<<"a">>), RespNullBulkString,
    Boolean(TRUE), RespNull, RespArray(<<BulkString(<<"a">>)>>),
    RespArray(<<RespNullBulkString>>),
    MapTerm(<<Entry(<<"a">>, Integer(One))>>) }

SentSeqs ==
  {<<w>> : w \in Scalars \cup Containers \cup Nested}
    \cup UNION {[1..k -> Pairable] : k \in 2..MaxSent}

Init ==
  /\ buf = <<>>
  /\ wire = <<>>
  /\ sent = <<>>
  /\ pc = "read"
  /\ pre = <<>>
  /\ res = NoRes
  /\ frames = <<>>
  /\ nread = 0
  /\ main = "accepting"
  /\ tasks = <<Spawned(1)>>

\* a socket read brings chunk c
Recv(c) ==
  /\ pc = "read"
  /\ nread < MaxReads
  /\ buf' = buf \o c
  /\ nread' = nread + 1
  /\ pc' = "decode"
  /\ UNCHANGED <<wire, sent, pre, res, frames, main, tasks>>

\* one call of RespFrame::decode on buf, and what the handler does with its result
Decode(oc) ==
  /\ pc = "decode"
  /\ LET r == RespFrame_decode(buf, oc)
     IN  /\ pre' = buf
         /\ res' = r
         /\ buf' = r.buf
         /\ frames' = IF r.kind = "Ok" THEN Append(frames, r.frame) ELSE frames
         /\ pc' = CASE r.kind = "Ok" -> "decode"
                    [] r.kind = "NotComplete" -> "read"
                    [] r.kind \in {"Panic", "Hang"} -> "crashed"
                    [] OTHER -> "closed"
  /\ UNCHANGED <<wire, sent, nread, main, tasks>>

Next ==
  \/ \E c \in Chunks : Recv(c)
  \/ \E oc \in BOOLEAN : Decode(oc)

\* a peer sending raw bytes
Spec == Init /\ [][Next]_vars

InitWire ==
  /\ sent \in SentSeqs
  /\ wire = EncodeItems(sent)
  /\ buf = <<>>
  /\ pc = "read"
  /\ pre = <<>>
  /\ res = NoRes
  /\ frames = <<>>
  /\ nread = 0
  /\ main = "accepting"
  /\ tasks = <<Spawned(1)>>

\* a socket read brings the next k bytes of what the peer sent
ReadWire(k) ==
  /\ pc = "read"
  /\ nread < MaxReads
  /\ buf' = buf \o SubSeq(wire, 1, k)
  /\ wire' = SubSeq(wire, k + 1, Len(wire))
  /\ nread' = nread + 1
  /\ pc' = "decode"
  /\ UNCHANGED <<sent, pre, res, frames, main, tasks>>

NextWire ==
  \/ \E k \in 1..Len(wire) : ReadWire(k)
  \/ \E oc \in BOOLEAN : Decode(oc)

\* a peer sending encoded frames, read in pieces of any size
SpecWire == InitWire /\ [][NextWire]_vars

\* the payloads of the Integer lines a peer sends: digits, with and without
\* leading zeros, at and beyond both ends of i64, and texts that are no number
IntTexts ==
  { <<"0">>, <<"1">>, <<"7">>, <<"0", "0">>, <<"0", "7">>, <<"4", "2">>,
    I64MaxDigits, I64MinDigits, <<"0">> \o I64MaxDigits, I64MaxDigits \o <<"0">>,
    SubSeq(I64MaxDigits, 1, 18) \o <<"9">>, SubSeq(I64MaxDigits, 1, 18),
    <<>>, <<"a">>, <<"1", "a">>, <<"1", ".", "5">>, <<"-", "1">>, <<" ", "1">> }
IntSigns == {<<>>, <<"+">>, <<"-">>}
IntLines == {Line(<<":">> \o s \o t) : s \in IntSigns, t \in IntTexts}
\* what follows the line in the same read
IntRests == {<<>>, Line(<<"+", "a">>), <<":">>}

InitInt ==
  /\ buf \in {l \o r : l \in IntLines, r \in IntRests}
  /\ wire = <<>>
  /\ sent = <<>>
  /\ pc = "decode"
  /\ pre = <<>>
  /\ res = NoRes
  /\ frames = <<>>
  /\ nread = 1
  /\ main = "accepting"
  /\ tasks = <<Spawned(1)>>

NextInt == \E oc \in BOOLEAN : Decode(oc)

\* a peer sending one Integer line in one read
SpecInt == InitInt /\ [][NextInt]_vars

(***************************************************************************)
(* main.rs: the listener.  main binds, then accepts in a loop and spawns   *)
(* one task per connection; `?` on bind and on accept returns main's Err.  *)
(***************************************************************************)
MaxConns == 3

\* the codec's variables while only the listener is looked at
Idle ==
  /\ buf = <<>> /\ wire = <<>> /\ sent = <<>> /\ pc = "read"
  /\ pre = <<>> /\ res = NoRes /\ frames = <<>> /\ nread = 0

InitListener == Idle /\ main = "start" /\ tasks = <<>>

\* main returns: the runtime shuts down and drops the tasks still running
Dropped(ts) ==
  [i \in 1..Len(ts) |->
     IF ts[i].state = "running" THEN [ts[i] EXCEPT !.state = "dropped"] ELSE ts[i]]

\* let listener = TcpListener::bind(addr).await?; let backend = Backend::new();
Bind ==
  /\ main = "start"
  /\ main' = "accepting"
  /\ UNCHANGED <<buf, wire, sent, pc, pre, res, frames, nread, tasks>>

BindFails ==
  /\ main = "start"
  /\ main' = "failed"
  /\ UNCHANGED <<buf, wire, sent, pc, pre, res, frames, nread, tasks>>

\* let (socket, raddr) = listener.accept().await?; backend.clone(); tokio::spawn(..)
Accept ==
  /\ main = "accepting"
  /\ Len(tasks) < MaxConns
  /\ tasks' = Append(tasks, Spawned(Len(tasks) + 1))
  /\ UNCHANGED <<buf, wire, sent, pc, pre, res, frames, nread, main>>

AcceptFails ==
  /\ main = "accepting"
  /\ main' = "failed"
  /\ tasks' = Dropped(tasks)
  /\ UNCHANGED <<buf, wire, sent, pc, pre, res, frames, nread>>

\* Err(e) => warn!(..), with the error reaching main as `?` would carry it
HandlerErrStops(i) ==
  /\ tasks[i].state = "running"
  /\ main' = "failed"
  /\ tasks' = Dropped([tasks EXCEPT ![i].state = "err", ![i].log = "warn"])
  /\ UNCHANGED <<buf, wire, sent, pc, pre, res, frames, nread>>

\* Ok(_) => info!("Connection from {} is handled successfully", raddr)
HandlerOk(i) ==
  /\ tasks[i].state = "running"
  /\ tasks' = [tasks EXCEPT ![i].state = "ok", ![i].log = "info"]
  /\ UNCHANGED <<buf, wire, sent, pc, pre, res, frames, nread, main>>

\* Err(e) => warn!("Error: {:?}", e)
HandlerErr(i) ==
  /\ tasks[i].state = "running"
  /\ tasks' = [tasks EXCEPT ![i].state = "err", ![i].log = "warn"]
  /\ UNCHANGED <<buf, wire, sent, pc, pre, res, frames, nread, main>>

\* the handler panics: tokio ends the task alone, nothing is logged by main.rs
HandlerPanics(i) ==
  /\ tasks[i].state = "running"
  /\ tasks' = [tasks EXCEPT ![i].state = "panicked"]
  /\ UNCHANGED <<buf, wire, sent, pc, pre, res, frames, nread, main>>

NextListener ==
  \/ Bind
  \/ BindFails
  \/ Accept
  \/ AcceptFails
  \/ \E i \in 1..Len(tasks) : HandlerOk(i)
  \/ \E i \in 1..Len(tasks) : HandlerErr(i)
  \/ \E i \in 1..Len(tasks) : HandlerPanics(i)

\* the server: main and the tasks it spawns
SpecListener == InitListener /\ [][NextListener]_vars

(***************************************************************************)
(* Properties.  pre is the buffer a call of RespFrame::decode was given,   *)
(* res what it returned and res.buf the buffer as the call left it.        *)
(***************************************************************************)
Called == res.kind # "None"
Prefixes == {"+", "-", ":", "$", "*", "_", "#", ",", "%", "~"}
Errors == {"InvalidFrameType", "ParseIntError", "ParseFloatError"}
NullBulkLit == <<"$", "-", "1", CR, LF>>
NullArrayLit == <<"*", "-", "1", CR, LF>>

\* C1: whenever decode returns an error other than NotComplete, the buffer is
\* byte for byte what it was before the call.
C1_ErrorLeavesBuffer == res.kind \in Errors => res.buf = pre

\* C2: whenever decode returns NotComplete, at any nesting depth, the buffer's
\* content and length are what they were before the call.
C2_NotCompleteKeepsBuffer == res.kind = "NotComplete" => res.buf = pre

\* C2 happens: NotComplete from inside an array nested in an array, whose
\* two header lines are complete.
C2_NestedNotComplete ==
  /\ res.kind = "NotComplete"
  /\ res.buf = pre
  /\ Len(pre) > 8
  /\ StartsWith(pre, <<"*", "1", CR, LF, "*", "1", CR, LF>>)

\* a wire term that is the encoding of a frame: no key is written twice
RECURSIVE IsEncoded(_)
IsEncoded(w) ==
  /\ \A i \in 1..Len(w.items) : IsEncoded(w.items[i])
  /\ w.type = "Map" =>
       \A i, j \in 1..Len(w.items) : w.items[i].bytes = w.items[j].bytes => i = j

\* one encoded frame was sent, and decode was called on a piece of it
OneSent == Len(sent) = 1 /\ IsEncoded(sent[1]) /\ Called /\ frames = <<>> /\ pre # <<>>

\* C3: a buffer holding only the first k bytes of an encoded frame, 0 < k <
\* total length, decodes to NotComplete with nothing consumed; once the rest
\* is appended, decoding yields the original frame.
C3_SplitThenWhole ==
  (OneSent /\ pre \o wire = encode(sent[1])) =>
    IF wire # <<>>
    THEN res.kind = "NotComplete" /\ res.buf = pre
    ELSE res.kind = "Ok" /\ res.frame = FrameOf(sent[1]) /\ res.buf = <<>>

\* C4: decoding a buffer that holds exactly the wire bytes of a frame yields
\* that frame with zero bytes remaining, containers of NullBulkString,
\* NullArray, Null or Boolean included.
C4_DecodeOfEncode ==
  (OneSent /\ pre = encode(sent[1])) =>
    res.kind = "Ok" /\ res.frame = FrameOf(sent[1]) /\ res.buf = <<>>

\* n >= 2 frames were sent and one read brought all their bytes
AllAtOnce == Len(sent) >= 2 /\ wire = <<>> /\ nread = 1 /\ Called

\* C5: a buffer holding n concatenated complete frames, decoded by repeated
\* calls, yields the frames one per call in wire order, each call removing
\* only its own frame's bytes, and is empty after the last call.
C5_FramesInOrder ==
  AllAtOnce =>
    /\ pc \notin {"closed", "crashed"}
    /\ Len(frames) <= Len(sent)
    /\ \A i \in 1..Len(frames) : i <= Len(sent) => frames[i] = FrameOf(sent[i])
    /\ (res.kind = "Ok" /\ Len(frames) <= Len(sent)) =>
         pre = encode(sent[Len(frames)]) \o res.buf
    /\ pc = "read" => (Len(frames) = Len(sent) /\ buf = <<>>)

\* C6: on an empty buffer decode returns NotComplete, on a buffer whose first
\* byte is none of the ten prefixes InvalidFrameType; the buffer is left as it
\* was, whatever its length.
C6_EmptyAndUnknownPrefix ==
  Called =>
    /\ pre = <<>> => (res.kind = "NotComplete" /\ res.buf = pre)
    /\ (pre # <<>> /\ pre[1] \notin Prefixes) =>
         (res.kind = "InvalidFrameType" /\ res.buf = pre)

\* C6 happens: a buffer of several bytes with an unknown first byte was refused.
C6_UnknownPrefixRefused ==
  /\ Len(pre) > 1
  /\ pre[1] \notin Prefixes
  /\ res.kind = "InvalidFrameType"
  /\ buf = pre
  /\ pc = "closed"

\* the result of the general decoder of prefix p on buffer b, in either build
General(b) ==
  IF b[1] = "$" THEN {BulkString_decode(b, oc) : oc \in BOOLEAN}
  ELSE {RespArray_decode(b, oc) : oc \in BOOLEAN}

\* C7: for a buffer starting with '$' or '*': if it starts with the null
\* literal the result is NullBulkString / NullArray and exactly those 5 bytes
\* are removed; if the null attempt reports NotComplete so does the call; on any
\* other failure of the null attempt the result is that of the general
\* BulkString / Array decoder on the untouched buffer.
C7_NullLiteralFirst ==
  (Called /\ pre # <<>> /\ pre[1] \in {"$", "*"}) =>
    /\ StartsWith(pre, NullBulkLit) => res = Ok(RespNullBulkString, SliceFrom(pre, 5))
    /\ StartsWith(pre, NullArrayLit) => res = Ok(RespNullArray, SliceFrom(pre, 5))
    /\ extract_fixed_data(pre, IF pre[1] = "$" THEN NullBulkLit ELSE NullArrayLit).kind
         = "NotComplete" => res = Err("NotComplete", pre)
    /\ extract_fixed_data(pre, IF pre[1] = "$" THEN NullBulkLit ELSE NullArrayLit).kind
         = "InvalidFrameType" => res \in General(pre)

\* C7 happens: the null attempt on a '$' buffer failed and the general decoder
\* gave a BulkString.
C7_FellBackToBulkString ==
  /\ Len(pre) >= 3
  /\ pre[1] = "$"
  /\ ~StartsWith(pre, NullBulkLit)
  /\ res.kind = "Ok"
  /\ res.frame.type = "BulkString"

\* a '$' buffer with a complete header line declaring a length
BulkHeader == parse_length(pre, <<"$">>)

\* C8: BulkString decode with a complete header declaring len returns
\* NotComplete, consuming nothing, when fewer than len + 2 bytes follow the
\* header; otherwise it removes exactly header + len + 2 bytes and returns the
\* len payload bytes, CR LF in the payload included.
C8_BulkLengthCheck ==
  (Called /\ pre # <<>> /\ pre[1] = "$" /\ BulkHeader.kind = "Ok") =>
    IF Len(pre) - (BulkHeader.end + 2) < BulkHeader.len + 2
    THEN res = Err("NotComplete", pre)
    ELSE res = Ok(BulkString(Slice(pre, BulkHeader.end + 2, BulkHeader.end + 2 + BulkHeader.len)),
                  SliceFrom(pre, BulkHeader.end + 2 + BulkHeader.len + 2))

\* what expect_length measures on the buffer decode was given
Measured(oc) == RespFrame_expect_length(pre, oc)

\* the first n bytes of b decode as one frame and nothing is left of them
DecodesWhole(b, n, oc) ==
  n <= Len(b) /\ RespFrame_decode(Slice(b, 0, n), oc).kind = "Ok"
              /\ RespFrame_decode(Slice(b, 0, n), oc).buf = <<>>

\* C9: when decode succeeds, the number of bytes it removes is the value
\* expect_length returns for the same buffer, the removed bytes are one
\* complete frame and the bytes after them are unchanged; and when
\* expect_length returns n, n is at most the buffer's length and the first n
\* bytes decode as one frame.
C9_DecodeAgreesWithExpectLength ==
  Called =>
    /\ res.kind = "Ok" =>
         \E oc \in BOOLEAN :
           /\ Measured(oc) = OkLen(Len(pre) - Len(res.buf))
           /\ res.buf = SliceFrom(pre, Len(pre) - Len(res.buf))
           /\ DecodesWhole(pre, Len(pre) - Len(res.buf), oc)
    /\ \A oc \in BOOLEAN :
         Measured(oc).kind = "Ok" => DecodesWhole(pre, Measured(oc).n, oc)

\* C10: decoding a Map of declared count n decodes n entries, each a
\* SimpleString key and a Frame value; the map holds for each key the value of
\* the last entry carrying it, and the bytes of all n entries are consumed.
C10_MapEntries ==
  (Len(sent) = 1 /\ sent[1].type = "Map" /\ Called /\ pre = encode(sent[1])) =>
    res = Ok(RespMap(EntriesOf(sent[1].items, {})), <<>>)

\* the first call of decode saw everything the peer sent, which starts with an
\* Array or a Set
ListFirst ==
  /\ Len(sent) >= 1
  /\ sent[1].type \in {"Array", "Set"}
  /\ Called
  /\ pre = EncodeItems(sent)

\* C11: decoding an Array or Set of declared count n yields exactly n elements
\* in wire order, duplicates kept, and consumes exactly the header and the n
\* elements' bytes.
C11_ListElements ==
  ListFirst =>
    /\ res.kind = "Ok"
    /\ res.frame.type = sent[1].type
    /\ Len(res.frame.items) = Len(sent[1].items)
    /\ \A i \in 1..Len(sent[1].items) : res.frame.items[i] = FrameOf(sent[1].items[i])
    /\ res.buf = EncodeItems(Tail(sent))

\* the buffer decode was given holds a complete first line
CompleteLine == Len(pre) >= 3 /\ \E i \in 0..(Len(pre) - 2) : CrlfAt(pre, i)
\* the bytes of that line between the prefix and the CRLF
HeaderText == Utf8Lossy(Slice(pre, 1, FirstCrlf(pre)))

\* a length-declaring header whose length is not a number, or is negative
BadLength ==
  /\ pre[1] \in {"$", "*", "%", "~"}
  /\ HeaderText # <<>>
  /\ ~AllDigits(HeaderText)
  /\ ~ParseUsize(HeaderText).ok
  /\ ~StartsWith(pre, NullBulkLit)
  /\ ~StartsWith(pre, NullArrayLit)

\* a Boolean or Null line that is not its literal
BadLiteral ==
  \/ pre[1] = "#" /\ ~StartsWith(pre, <<"#", "t", CR, LF>>)
                  /\ ~StartsWith(pre, <<"#", "f", CR, LF>>)
  \/ pre[1] = "_" /\ ~StartsWith(pre, <<"_", CR, LF>>)

Permanent == {"InvalidFrameType", "InvalidFrameLength"}

\* C12: on a complete header line with a non-numeric or negative length (the
\* null literals apart), and on a complete Boolean/Null line that is not its
\* literal, decode and expect_length return InvalidFrameType or
\* InvalidFrameLength: not NotComplete, not another kind.
C12_HeaderFailureIsPermanent ==
  (Called /\ CompleteLine /\ (BadLength \/ BadLiteral)) =>
    /\ res.kind \in Permanent
    /\ \A oc \in BOOLEAN : Measured(oc).kind \in Permanent

LinePrefixes == {"+", "-", ":", ",", "#", "_"}

\* C13: for a simple string, simple error, integer, double, boolean or null,
\* expect_length returns NotComplete when the buffer has fewer than 3 bytes or
\* holds no CRLF, and otherwise the length of the line through its CRLF.
C13_LineExpectLength ==
  (Called /\ pre # <<>> /\ pre[1] \in LinePrefixes) =>
    \A oc \in BOOLEAN :
      Measured(oc) = IF CompleteLine THEN OkLen(FirstCrlf(pre) + 2) ELSE ErrLen("NotComplete")

\* an Array or Set header of count >= 1 followed by a byte that is no prefix
UnknownElement ==
  /\ pre # <<>>
  /\ pre[1] \in {"*", "~"}
  /\ parse_length(pre, <<pre[1]>>).kind = "Ok"
  /\ parse_length(pre, <<pre[1]>>).len >= 1
  /\ Len(pre) > parse_length(pre, <<pre[1]>>).end + 2
  /\ pre[parse_length(pre, <<pre[1]>>).end + 3] \notin Prefixes

\* C14: expect_length uses decode's prefix table: on a buffer whose first byte
\* is no prefix it reports InvalidFrameType, so a container holding an element
\* with such a first byte is rejected with a permanent error.
C14_ExpectLengthUnknownPrefix ==
  Called =>
    /\ (pre # <<>> /\ pre[1] \notin Prefixes) =>
         \A oc \in BOOLEAN : Measured(oc).kind = "InvalidFrameType"
    /\ UnknownElement =>
         (res.kind = "InvalidFrameType"
            /\ \A oc \in BOOLEAN : Measured(oc).kind = "InvalidFrameType")

\* one container was sent that holds a null literal directly, and decode was
\* given all its bytes
HoldsNullLiteral ==
  /\ OneSent
  /\ pre = encode(sent[1])
  /\ \E i \in 1..Len(sent[1].items) :
       (IF sent[1].type = "Map" THEN sent[1].items[i].items[1] ELSE sent[1].items[i]).type
         \in {"NullBulkString", "NullArray"}

\* C15: elements of an Array or Set and values of a Map are measured and
\* decoded as top-level frames are: a nested `$-1\r\n` is a NullBulkString
\* element, a nested `*-1\r\n` a NullArray element, each 5 bytes of the
\* container's total length.
C15_NestedNullLiterals ==
  HoldsNullLiteral =>
    /\ res = Ok(FrameOf(sent[1]), <<>>)
    /\ \A oc \in BOOLEAN : Measured(oc) = OkLen(Len(encode(sent[1])))

\* where the payload of the bulk string at the front of pre ends
PayloadEnd == BulkHeader.end + 2 + BulkHeader.len

\* C16: whenever BulkString decode returns a BulkString of declared length
\* len, the two bytes after the len payload bytes in the buffer were CR LF.
C16_BulkTerminator ==
  (Called /\ pre # <<>> /\ pre[1] = "$" /\ res.kind = "Ok"
     /\ res.frame.type = "BulkString") =>
    (Len(pre) >= PayloadEnd + 2 /\ CrlfAt(pre, PayloadEnd))

\* the payload of the Integer line at the front of pre: its sign and the rest
IntSigned == HeaderText # <<>> /\ HeaderText[1] \in {"+", "-"}
IntBody == IF IntSigned THEN Tail(HeaderText) ELSE HeaderText
IntNeg == IntSigned /\ HeaderText[1] = "-"
\* the payload is [+|-]<digits> and its value is within i64
IntInRange ==
  /\ IntBody # <<>>
  /\ AllDigits(IntBody)
  /\ \/ Len(StripZeros(IntBody)) < 19
     \/ /\ Len(StripZeros(IntBody)) = 19
        /\ DigitsLE(StripZeros(IntBody), IF IntNeg THEN I64MinDigits ELSE I64MaxDigits)

\* C17: Integer decode on a complete line `:[+|-]<digits>\r\n` returns the
\* signed 64-bit value, `+` and no sign giving the same value, and removes
\* exactly the line with its CRLF; digits outside i64 or a payload that is no
\* number give a ParseError, not a wrapped value.
C17_IntegerDecode ==
  (Called /\ pre # <<>> /\ pre[1] = ":" /\ CompleteLine) =>
    IF IntInRange
    THEN res = Ok(Integer([neg |-> IntNeg /\ StripZeros(IntBody) # <<"0">>,
                           mag |-> StripZeros(IntBody)]),
                  SliceFrom(pre, FirstCrlf(pre) + 2))
    ELSE res.kind = "ParseIntError"

\* C17 happens: a line with an explicit '+' decoded to the value of its
\* digits, and the bytes after the line were left in the buffer.
C17_PlusSignDecoded ==
  /\ pre = Line(<<":", "+", "0", "7">>) \o Line(<<"+", "a">>)
  /\ res.kind = "Ok"
  /\ res.frame = Integer([neg |-> FALSE, mag |-> <<"7">>])
  /\ res.buf = Line(<<"+", "a">>)

\* handler i ends with an error in this step
EndsWithError(i) == tasks[i].state = "running" /\ tasks'[i].state = "err"

\* C18: main spawns one handler task per accepted connection, each with its
\* own clone of the shared Backend handle; a handler ending with an error is
\* only logged, and neither stops the accept loop nor touches another handler;
\* a failure of bind or accept ends the server.
C18_ListenerIsolation ==
  /\ [](\A i \in 1..Len(tasks) : tasks[i].backend = [store |-> "backend", clone |-> i])
  /\ [](main = "failed" => \A i \in 1..Len(tasks) : tasks[i].state # "running")
  /\ [][\A i \in 1..Len(tasks) :
          EndsWithError(i) =>
            /\ main' = main
            /\ tasks'[i].log = "warn"
            /\ Len(tasks') = Len(tasks)
            /\ \A j \in 1..Len(tasks) : j # i => tasks'[j] = tasks[j]]_vars
  /\ [][Len(tasks') > Len(tasks) =>
          (main = "accepting" /\ main' = main /\ Len(tasks') = Len(tasks) + 1)]_vars
  /\ [][main = "failed" => UNCHANGED <<main, tasks>>]_vars

\* C18 happens: a handler has ended with an error, main is still accepting and
\* a connection accepted later has its handler running.
C18_AcceptedAfterError ==
  /\ main = "accepting"
  /\ \E i, j \in 1..Len(tasks) :
       i < j /\ tasks[i].state = "err" /\ tasks[i].log = "warn" /\ tasks[j].state = "running"

Aborts == {"Panic", "Hang"}

\* C19: on every buffer decode and expect_length return (a frame or length,
\* NotComplete or an error) and never abort on a slice out of range; a
\* container whose buffer ends inside a nested element yields NotComplete.
C19_NeverAborts ==
  Called =>
    /\ res.kind \notin Aborts
    /\ \A oc \in BOOLEAN : Measured(oc).kind \notin Aborts

\* once c has been appended to b, decode no longer returns NotComplete: it
\* returns a frame or a terminal error (or the task aborts, which ends the
\* wait as well)
Settles(b, c) ==
  \E oc \in BOOLEAN : RespFrame_decode(b \o c, oc).kind # "NotComplete"

\* C20: NotComplete is transient: for every buffer on which decode returns
\* NotComplete some continuation of bytes makes decode return a frame or a
\* terminal error; no buffer is NotComplete whatever follows.
C20_NotCompleteIsTransient ==
  res.kind = "NotComplete" => \E c \in Chunks : Settles(pre, c)

\* the buffer decode was given starts as an Array, a Set or a Map
IsContainer == pre # <<>> /\ pre[1] \in {"*", "%", "~"}

\* C21: in Array, Set and Map decode the check of the buffer's length against
\* the measured total is the only source of NotComplete after measuring: once
\* the header has been removed no nested decode returns NotComplete, so a
\* container decode never reports NotComplete with its header consumed.
C21_NoNotCompleteAfterHeader ==
  (Called /\ IsContainer) =>
    /\ res.kind = "NotComplete" => res.buf = pre
    /\ \A oc \in BOOLEAN :
         ContainerHeader(pre, <<pre[1]>>, oc).kind = "Ok" =>
           RespFrame_decode(pre, oc).kind # "NotComplete"

====
